---- MODULE Spec2Model ----
(***************************************************************************)
(* Model of audiowmark's MPEG transport stream support: TSPacket,          *)
(* TSWriter::append_file / TSWriter::process and TSReader::parse_header /  *)
(* TSReader::load.  Bytes are the numbers 0..255, a FILE is a record that  *)
(* holds its bytes, its read position and its end-of-file flag, and every  *)
(* loop of the code is an action that runs one iteration of it.            *)
(***************************************************************************)
EXTENDS Integers, Sequences, FiniteSets, TLC

\* The field names of the records of this module.  Every record below lists its
\* fields in this order.
FieldNames ==
  DOMAIN [accepted |-> 0, awmk_stream |-> 0, bytes |-> 0, data |-> 0,
          data_pos |-> 0, data_size |-> 0, eof |-> 0, err |-> 0, file |-> 0,
          filename |-> 0, for |-> 0, full |-> 0, header |-> 0,
          header_valid |-> 0, m_data |-> 0, m_entries |-> 0, matched |-> 0,
          name |-> 0, null |-> 0, ok |-> 0, p_file |-> 0, pos |-> 0,
          sm1 |-> 0, sm2 |-> 0]

(* ------------------------------ bounds --------------------------------- *)

\* The number of entries append_file may stage.
MaxEntries == 2
\* The number of whole packets of a prepared input file of process.
MaxInPackets == 2
\* The number of packets of a prepared input file of load, before its ending.
MaxLoadPackets == 3
\* The number of fwrite calls that may come back short when the sink is faulty.
MaxShortWrites == 1

(* ------------------------- program constants --------------------------- *)

\* std::array<unsigned char, 188> m_data
PacketSize == 188
\* std::array<unsigned char, 12> get_id_bytes; int pos = 12
IdSize == 12
\* 'G', the sync byte read() tests
SyncByte == 71

Min(a, b) == IF a < b THEN a ELSE b

Zeros(n) == [i \in 1..n |-> 0]

Fill(n, b) == [i \in 1..n |-> b]

(* ------------------------------ TSPacket ------------------------------- *)

get_id_bytes(type) ==
  IF type = "awmk_file"
    THEN <<71, 31, 255, 16, 65, 87, 77, 75, 102, 105, 108, 101>>
    ELSE IF type = "awmk_data"
      THEN <<71, 31, 255, 16, 65, 87, 77, 75, 100, 97, 116, 97>>
      ELSE Zeros(IdSize)

\* clear as it would be if it stamped the start marker whatever the type.
clear_ignoring_type(type) ==
  [i \in 1..PacketSize |->
     IF i <= IdSize THEN get_id_bytes("awmk_file")[i] ELSE 0]

\* std::fill (0), then std::copy of the id bytes to the front.
clear(type) ==
  LET zeroed == Zeros(PacketSize)
      id     == get_id_bytes(type)
  IN  [i \in 1..PacketSize |-> IF i <= Len(id) THEN id[i] ELSE zeroed[i]]

\* offset counts from 0 as in the code; sequences count from 1.
id_eq(m_data, offset, a, b, c, d) ==
  /\ m_data[offset + 1] = a
  /\ m_data[offset + 2] = b
  /\ m_data[offset + 3] = c
  /\ m_data[offset + 4] = d

\* get_id as it would be without its test of the first four bytes.
get_id_ignoring_sync(m_data) ==
  IF id_eq(m_data, 4, 65, 87, 77, 75)
    THEN IF id_eq(m_data, 8, 102, 105, 108, 101) THEN "awmk_file"
         ELSE IF id_eq(m_data, 8, 100, 97, 116, 97) THEN "awmk_data"
         ELSE "unknown"
    ELSE "unknown"

get_id(m_data) ==
  IF id_eq(m_data, 0, 71, 31, 255, 16) /\ id_eq(m_data, 4, 65, 87, 77, 75)
    THEN IF id_eq(m_data, 8, 102, 105, 108, 101) THEN "awmk_file"
         ELSE IF id_eq(m_data, 8, 100, 97, 116, 97) THEN "awmk_data"
         ELSE "unknown"
    ELSE "unknown"

\* fopen: the FILE a successful open gives, and the null pointer of a failed one.
OpenFile(bytes) == [bytes |-> bytes, eof |-> FALSE, null |-> FALSE, pos |-> 0]

NullFile == [bytes |-> <<>>, eof |-> FALSE, null |-> TRUE, pos |-> 0]

\* read as it would be without its test of the sync byte.
read_without_sync_test(file) ==
  LET bytes_read == Min(PacketSize, Len(file.bytes) - file.pos)
      m_data     == SubSeq(file.bytes, file.pos + 1, file.pos + bytes_read)
      after      == [file EXCEPT !.eof = file.eof \/ bytes_read < PacketSize,
                                 !.pos = file.pos + bytes_read]
  IN  IF bytes_read = 0
        THEN [err |-> "NONE", file |-> after, m_data |-> m_data, ok |-> FALSE]
      ELSE IF bytes_read = PacketSize
        THEN [err |-> "NONE", file |-> after, m_data |-> m_data, ok |-> TRUE]
      ELSE [err |-> "short read", file |-> after, m_data |-> m_data, ok |-> FALSE]

\* read as it would be if it took every short count for the end of the file.
read_short_as_eof(file) ==
  LET bytes_read == Min(PacketSize, Len(file.bytes) - file.pos)
      m_data     == SubSeq(file.bytes, file.pos + 1, file.pos + bytes_read)
      after      == [file EXCEPT !.eof = file.eof \/ bytes_read < PacketSize,
                                 !.pos = file.pos + bytes_read]
  IN  IF bytes_read < PacketSize
        THEN [err |-> "NONE", file |-> after, m_data |-> m_data, ok |-> FALSE]
      ELSE IF m_data[1] = SyncByte
        THEN [err |-> "NONE", file |-> after, m_data |-> m_data, ok |-> TRUE]
      ELSE [err |-> "bad packet sync", file |-> after, m_data |-> m_data, ok |-> FALSE]

\* read as it would be if an fread that gives no byte left the end-of-file
\* indicator unset.
read_without_eof(file) ==
  LET bytes_read == Min(PacketSize, Len(file.bytes) - file.pos)
      m_data     == SubSeq(file.bytes, file.pos + 1, file.pos + bytes_read)
      after      == [file EXCEPT !.eof = file.eof \/ (0 < bytes_read /\ bytes_read < PacketSize),
                                 !.pos = file.pos + bytes_read]
  IN  IF bytes_read = 0
        THEN [err |-> "NONE", file |-> after, m_data |-> m_data, ok |-> FALSE]
      ELSE IF bytes_read = PacketSize
        THEN IF m_data[1] = SyncByte
               THEN [err |-> "NONE", file |-> after, m_data |-> m_data, ok |-> TRUE]
               ELSE [err |-> "bad packet sync", file |-> after, m_data |-> m_data, ok |-> FALSE]
      ELSE [err |-> "short read", file |-> after, m_data |-> m_data, ok |-> FALSE]

\* TSPacket::read: fread of up to 188 bytes, then the three-way test.  The
\* result holds the return value ok, the Error err ("NONE" when it is left
\* unset), the packet bytes and the FILE after the call.
read(file) ==
  LET bytes_read == Min(PacketSize, Len(file.bytes) - file.pos)
      m_data     == SubSeq(file.bytes, file.pos + 1, file.pos + bytes_read)
      after      == [file EXCEPT !.eof = file.eof \/ bytes_read < PacketSize,
                                 !.pos = file.pos + bytes_read]
  IN  IF bytes_read = 0
        THEN [err |-> "NONE", file |-> after, m_data |-> m_data, ok |-> FALSE]
      ELSE IF bytes_read = PacketSize
        THEN IF m_data[1] = SyncByte
               THEN [err |-> "NONE", file |-> after, m_data |-> m_data, ok |-> TRUE]
               ELSE [err |-> "bad packet sync", file |-> after, m_data |-> m_data, ok |-> FALSE]
      ELSE [err |-> "short read", file |-> after, m_data |-> m_data, ok |-> FALSE]

\* write as it would be if it handed fwrite one byte less than the packet.
write_one_byte_less(file, m_data, bytes_written) ==
  [err  |-> IF bytes_written # PacketSize THEN "short write" ELSE "NONE",
   file |-> file \o SubSeq(m_data, 1, bytes_written - 1)]

\* TSPacket::write: fwrite accepted bytes_written bytes of the packet.
write(file, m_data, bytes_written) ==
  [err  |-> IF bytes_written # PacketSize THEN "short write" ELSE "NONE",
   file |-> file \o SubSeq(m_data, 1, bytes_written)]

(* ------------------------------ TSWriter ------------------------------- *)

\* sprintf (buf, "%zd", n): the decimal digits of n as characters.
RECURSIVE sprintf_zd(_)
sprintf_zd(n) ==
  IF n < 10 THEN <<48 + n>> ELSE sprintf_zd(n \div 10) \o <<48 + (n % 10)>>

\* header = buf; header += ":" + entry.name; header += '\0'
make_header(entry) ==
  sprintf_zd(Len(entry.data)) \o <<58>> \o entry.name \o <<0>>

\* vector data = entry.data, with header[i] inserted at position i for each i:
\* the header bytes in order, then the entry's bytes.
framed_data(entry) == make_header(entry) \o entry.data

\* The while loop as it would be if the iteration that writes a packet skipped
\* its data_pos++.
fill_loop_without_increment(p, at, d, dpos) ==
  LET n    == Min(PacketSize - at, Len(d) - dpos)
      full == n > 0 /\ at + n = PacketSize
  IN  [data_pos |-> IF full THEN dpos + n - 2 ELSE dpos + n,
       full     |-> full,
       p_file   |-> [i \in 1..PacketSize |->
                       IF i > at /\ i <= at + n THEN d[dpos + (i - at)] ELSE p[i]],
       pos      |-> at + n]

\* The while loop of the append phase, run up to the iteration in which pos
\* reaches 188 (full: the body is at its write) or until data_pos reaches
\* data.size().  Each iteration stores data[data_pos] at p_file[pos] and adds
\* one to both, so n iterations copy n bytes; pos and data_pos count from 0 as
\* in the code, and data_pos is not yet incremented in the iteration that fills
\* the packet.
fill_loop(p, at, d, dpos) ==
  LET n    == Min(PacketSize - at, Len(d) - dpos)
      full == n > 0 /\ at + n = PacketSize
  IN  [data_pos |-> IF full THEN dpos + n - 1 ELSE dpos + n,
       full     |-> full,
       p_file   |-> [i \in 1..PacketSize |->
                       IF i > at /\ i <= at + n THEN d[dpos + (i - at)] ELSE p[i]],
       pos      |-> at + n]

(* ------------------------------ TSReader ------------------------------- *)

\* The positions i (from 0) at which data[i] == 0.
NulPositions(d) == {i \in 0..(Len(d) - 1) : d[i + 1] = 0}

SetMin(S) == CHOOSE x \in S : \A y \in S : x <= y

\* (const char *) (&data[0]): the bytes before the first NUL.
c_str(d) == SubSeq(d, 1, SetMin(NulPositions(d)))

IsDigit(c) == c >= 48 /\ c <= 57

RECURSIVE DigitPrefix(_, _)
DigitPrefix(s, k) ==
  IF k < Len(s) /\ IsDigit(s[k + 1]) THEN DigitPrefix(s, k + 1) ELSE k

\* regex_match as it would be if the pattern asked for no ':' behind the digits.
regex_match_lenient(s) ==
  LET k == DigitPrefix(s, 0)
  IN  [matched |-> TRUE, sm1 |-> SubSeq(s, 1, k), sm2 |-> SubSeq(s, k + 1, Len(s))]

\* regex_match (s, sm, "([0-9]*):(.*)"), ECMAScript grammar: the digits can
\* only be the longest digit prefix (a shorter one is followed by a digit, not
\* by ':'), and '.' matches every character but the line terminators LF and CR.
regex_match(s) ==
  LET k == DigitPrefix(s, 0)
  IN  IF /\ k < Len(s)
         /\ s[k + 1] = 58
         /\ \A j \in (k + 2)..Len(s) : s[j] \notin {10, 13}
        THEN [matched |-> TRUE, sm1 |-> SubSeq(s, 1, k),
              sm2 |-> SubSeq(s, k + 2, Len(s))]
        ELSE [matched |-> FALSE, sm1 |-> <<>>, sm2 |-> <<>>]

\* atoi of a string of digits (the empty string gives 0).
RECURSIVE atoi(_)
atoi(s) ==
  IF s = <<>> THEN 0
  ELSE atoi(SubSeq(s, 1, Len(s) - 1)) * 10 + (s[Len(s)] - 48)

\* TSReader::parse_header: the scan over i stops at the first i with
\* data[i] == 0 at which the regex matches s (s is the same string at every such
\* i), and erases data[0..i].  Gives the return value, the header and the data
\* vector after the call.
parse_header(hdr, d) ==
  LET nuls  == NulPositions(d)
      stops == IF nuls # {} /\ regex_match(c_str(d)).matched THEN nuls ELSE {}
  IN  IF stops = {}
        THEN [data |-> d, header |-> hdr, ok |-> FALSE]
        ELSE LET i  == SetMin(stops)
                 sm == regex_match(c_str(d))
             IN  [data |-> SubSeq(d, i + 2, Len(d)),
                  header |-> [data_size |-> atoi(sm.sm1), filename |-> sm.sm2],
                  ok |-> TRUE]

\* Lines 238-243 as they would be if a start packet kept the old contents.
start_reset_keeping(st, id) == st

\* Lines 238-243: a start packet clears header_valid and awmk_stream.  st is the
\* reader's state [awmk_stream, header, header_valid, m_entries].
start_reset(st, id) ==
  IF id = "awmk_file"
    THEN [st EXCEPT !.awmk_stream = <<>>, !.header_valid = FALSE]
    ELSE st

\* Lines 246-255: the packet's bytes from index 12 on are appended to
\* awmk_stream, and parse_header is tried while no header is valid.
take_payload(st, m_data) ==
  LET s2 == [st EXCEPT !.awmk_stream =
                         @ \o SubSeq(m_data, IdSize + 1, PacketSize)]
      ph == parse_header(s2.header, s2.awmk_stream)
  IN  IF ~s2.header_valid /\ ph.ok
        THEN [s2 EXCEPT !.awmk_stream = ph.data,
                        !.header = ph.header,
                        !.header_valid = TRUE]
        ELSE s2

\* Lines 257-265 as they would be without the resize.
emit_entry_without_resize(st) ==
  IF st.header_valid /\ Len(st.awmk_stream) >= st.header.data_size
    THEN [st EXCEPT
            !.awmk_stream = <<>>,
            !.header_valid = FALSE,
            !.m_entries = Append(@, [data |-> st.awmk_stream,
                                     name |-> st.header.filename])]
    ELSE st

\* Lines 257-265 as they would be if the entry were inserted at the front.
emit_entry_at_front(st) ==
  IF st.header_valid /\ Len(st.awmk_stream) >= st.header.data_size
    THEN [st EXCEPT
            !.awmk_stream = <<>>,
            !.header_valid = FALSE,
            !.m_entries = <<[data |-> SubSeq(st.awmk_stream, 1, st.header.data_size),
                             name |-> st.header.filename]>> \o @]
    ELSE st

\* Lines 257-265: with a valid header and at least data_size bytes, the stream
\* is cut to data_size bytes and pushed with the name, and the state is reset.
emit_entry(st) ==
  IF st.header_valid /\ Len(st.awmk_stream) >= st.header.data_size
    THEN [st EXCEPT
            !.awmk_stream = <<>>,
            !.header_valid = FALSE,
            !.m_entries = Append(@,
               [data |-> SubSeq(st.awmk_stream, 1, st.header.data_size),
                name |-> st.header.filename])]
    ELSE st

\* The loop body as it would be if a packet without marker cleared the old
\* contents.
load_packet_unmarked_clears(st, m_data) ==
  LET id == get_id(m_data)
  IN  IF id = "awmk_file" \/ id = "awmk_data"
        THEN emit_entry(take_payload(start_reset(st, id), m_data))
        ELSE [st EXCEPT !.awmk_stream = <<>>, !.header_valid = FALSE]

\* The body of load's loop for a packet that was read: lines 237-266.
load_packet(st, m_data) ==
  LET id == get_id(m_data)
      s1 == start_reset(st, id)
  IN  IF id = "awmk_file" \/ id = "awmk_data"
        THEN emit_entry(take_payload(s1, m_data))
        ELSE s1

(* ------------------------------- inputs -------------------------------- *)

\* A packet carrying the marker of type and the given payload bytes, zero padded.
Marked(type, payload) ==
  [i \in 1..PacketSize |->
     IF i <= IdSize THEN get_id_bytes(type)[i]
     ELSE IF i - IdSize <= Len(payload) THEN payload[i - IdSize] ELSE 0]

\* Two packets of ordinary stream content, and one whose sync byte is wrong.
PlainA == [i \in 1..PacketSize |-> IF i = 1 THEN SyncByte ELSE 1]
PlainB == [i \in 1..PacketSize |-> IF i = 1 THEN SyncByte ELSE 2]
BadSync == [Marked("awmk_file", <<49, 58, 113, 0, 90>>) EXCEPT ![1] = 72]

\* Marked packets as a stream may hold them: a whole entry "2:s\0hi" in one
\* start packet; a start packet "180:p\0" with 170 of its 180 bytes; and a
\* continuation packet whose payload reads "1:o\0X".
StartFull == Marked("awmk_file", <<50, 58, 115, 0, 104, 105>>)
StartPart == Marked("awmk_file", <<49, 56, 48, 58, 112, 0>> \o Fill(170, 7))
ContOrphan == Marked("awmk_data", <<49, 58, 111, 0, 88>>)

\* A start packet whose text before the first NUL, "x:1", is no header.
StartMalformed == Marked("awmk_file", <<120, 58, 49, 0, 104>>)

\* The entries append_file can stage: the two of the specification's scenario
\* (a.txt with 5 bytes, among them NUL, the sync byte, ':' and LF; b.bin with
\* 200 bytes, among them both markers), the empty entry with the empty name, a
\* name with a line feed in it, and a name of 180 characters whose framed
\* length 3 + 1 + 180 + 1 + 167 = 352 is twice 176.
EntryKinds ==
  { [data |-> <<0, 71, 255, 58, 10>>, name |-> <<97, 46, 116, 120, 116>>],
    [data |-> get_id_bytes("awmk_file") \o Fill(164, 9)
                \o get_id_bytes("awmk_data") \o Zeros(12),
     name |-> <<98, 46, 98, 105, 110>>],
    [data |-> <<>>, name |-> <<>>],
    [data |-> <<1>>, name |-> <<97, 10, 98>>],
    [data |-> Fill(167, 5), name |-> Fill(180, 110)] }

\* Byte counts fwrite may accept when it comes back short.
ShortWriteLens == {0, 100}

RECURSIVE PacketSeqs(_, _)
PacketSeqs(kinds, n) ==
  IF n = 0 THEN {<<>>}
  ELSE LET shorter == PacketSeqs(kinds, n - 1)
       IN  shorter \cup {s \o k : s \in shorter, k \in kinds}

\* The prepared files: up to MaxLoadPackets packets of the given kinds, and then
\* one of the given endings.
Files(kinds, endings) ==
  {s \o e : s \in PacketSeqs(kinds, MaxLoadPackets), e \in endings}

\* Leftover bytes after the last whole packet: tail bytes of a packet.
Leftover(n) == SubSeq(PlainA, 1, n)

\* Ordinary stream content of n packets: PlainA, PlainB, PlainA, ...
RECURSIVE Ordinary(_)
Ordinary(n) ==
  IF n = 0 THEN <<>>
  ELSE Ordinary(n - 1) \o (IF n % 2 = 1 THEN PlainA ELSE PlainB)

\* What process is given: up to MaxInPackets ordinary packets, and then nothing
\* more, a packet with a wrong sync byte before a good one, or 187 leftover
\* bytes.
ProcessInputs ==
  {Ordinary(n) \o e : n \in 0..MaxInPackets,
                      e \in {<<>>, BadSync \o PlainB, Leftover(187)}}

\* What load is given when it does not read the output of process.
LoadInputs ==
  Files({PlainA, StartFull, StartPart, ContOrphan, StartMalformed},
        {<<>>, Leftover(1), Leftover(187), BadSync \o StartFull})

(* ------------------------------- state --------------------------------- *)

VARIABLES
  entries,       \* TSWriter::entries
  earlier,       \* the entries that earlier runs of process put in the stream
  wpc,           \* where process is: idle, pass, append, fill, done, crashed
  w_infile,      \* process: infile
  outfile,       \* process: the bytes outfile holds
  next_entry,    \* process: how many entries the for loop has finished
  data,          \* process: the framed bytes of the current entry
  data_pos,      \* process: data_pos
  p_file,        \* process: p_file
  pos,           \* process: pos
  wret,          \* process: the Error returned ("unset" before it returns)
  wlog,          \* every call of TSPacket::write so far: the number of bytes
                 \* fwrite accepted, and what the packet was written for (0: a
                 \* packet of the input, e: the e-th staged entry)
  wreads,        \* the number of TSPacket::read calls of process so far
  short_left,    \* the number of fwrite calls that may still come back short
  rpc,           \* where load is: idle, loop, done, crashed
  rsrc,          \* what load was given: none, outfile, infile, file
  r_infile,      \* load: infile
  reader,        \* load: awmk_stream, header, header_valid; TSReader: m_entries
  rret           \* load: the Error returned ("unset" before it returns)

wvars == <<entries, earlier, wpc, w_infile, outfile, next_entry, data, data_pos, p_file,
           pos, wret, wlog, wreads, short_left>>

rvars == <<rpc, rsrc, r_infile, reader, rret>>

vars == <<entries, earlier, wpc, w_infile, outfile, next_entry, data, data_pos, p_file,
          pos, wret, wlog, wreads, short_left, rpc, rsrc, r_infile, reader, rret>>

\* teststream.cc: an SFInputStream, the sound file behind it and its client.
VARIABLES
  m_state,       \* SFInputStream::m_state: NEW, OPEN, CLOSED
  m_sndfile,     \* SFInputStream::m_sndfile: nullptr or the handle sf_open gave
  m_n_channels,  \* SFInputStream::m_n_channels
  sf_frames,     \* the frames the handle has still to deliver
  sf_closes,     \* the number of sf_close calls on the handle
  close_calls,   \* the number of calls of SFInputStream::close
  called,        \* the last call on the stream and, for open, what it returned
  failed_assert, \* the method whose assert failed ("none": no assert failed)
  samples,       \* the size of the vector the last read_frames returned
  calls,         \* the number of calls a client other than main has made
  spc            \* the client: start; main: loop, save, failed, exited;
                 \* another client: free, destroyed

svars == <<m_state, m_sndfile, m_n_channels, sf_frames, sf_closes, close_calls,
           called, failed_assert, samples, calls, spc>>

\* SFInputStream in; (lines 19-30): the member initializers.
StreamNew ==
  /\ m_state = "NEW"
  /\ m_sndfile = "nullptr"
  /\ m_n_channels = 0
  /\ sf_frames = 0
  /\ sf_closes = 0
  /\ close_calls = 0
  /\ called = "none"
  /\ failed_assert = "none"
  /\ samples = 0
  /\ calls = 0
  /\ spc = "start"

InitBut(faults) ==
  /\ short_left = faults
  /\ StreamNew
  /\ entries = <<>>
  /\ earlier = <<>>
  /\ wpc = "idle"
  /\ w_infile = NullFile
  /\ outfile = <<>>
  /\ next_entry = 0
  /\ data = <<>>
  /\ data_pos = 0
  /\ p_file = Zeros(PacketSize)
  /\ pos = 0
  /\ wret = "unset"
  /\ wlog = <<>>
  /\ wreads = 0
  /\ rpc = "idle"
  /\ rsrc = "none"
  /\ r_infile = NullFile
  /\ reader = [awmk_stream |-> <<>>,
               header |-> [data_size |-> 0, filename |-> <<>>],
               header_valid |-> FALSE,
               m_entries |-> <<>>]
  /\ rret = "unset"

\* The output sink may fail: up to MaxShortWrites calls of fwrite come back short.
Init == InitBut(MaxShortWrites)

\* The output sink accepts every byte it is given.
InitSinkOk == InitBut(0)

\* What fwrite may accept of a packet.
WriteOutcomes ==
  IF short_left > 0 THEN {PacketSize} \cup ShortWriteLens ELSE {PacketSize}

\* fwrite has accepted n bytes: a short write uses up one of the sink's faults.
SinkAfter(n) == IF n # PacketSize THEN short_left - 1 ELSE short_left

(* --------------------------- TSWriter actions -------------------------- *)

\* TSWriter::append_file with a data file that opens: the entry is staged.
AppendFile(entry) ==
  /\ wpc = "idle"
  /\ rpc = "idle"
  /\ Len(earlier) + Len(entries) < MaxEntries
  /\ entries' = Append(entries, entry)
  /\ UNCHANGED <<earlier, wpc, w_infile, outfile, next_entry, data, data_pos,
                 p_file, pos,
                 wret, wlog, wreads, short_left>>
  /\ UNCHANGED <<rvars, svars>>

\* After a run of process that returned no error and wrote every packet whole:
\* a TSWriter is constructed anew, with no entries, and what the run wrote
\* (at most MaxInPackets packets) is the file its process will be given.
NewWriter ==
  /\ wpc = "done"
  /\ wret = "NONE"
  /\ rpc = "idle"
  /\ entries # <<>>
  /\ Len(earlier) + Len(entries) < MaxEntries
  /\ \A i \in 1..Len(wlog) : wlog[i].accepted = PacketSize
  /\ Len(outfile) <= MaxInPackets * PacketSize
  /\ earlier' = earlier \o entries
  /\ entries' = <<>>
  /\ w_infile' = OpenFile(outfile)
  /\ outfile' = <<>>
  /\ wpc' = "idle"
  /\ next_entry' = 0
  /\ data' = <<>>
  /\ data_pos' = 0
  /\ p_file' = Zeros(PacketSize)
  /\ pos' = 0
  /\ wret' = "unset"
  /\ wlog' = <<>>
  /\ wreads' = 0
  /\ UNCHANGED short_left
  /\ UNCHANGED <<rvars, svars>>

\* process, lines 134-137: both files are opened; outfile starts empty.
ProcessOpen(file) ==
  /\ wpc = "idle"
  /\ rpc = "idle"
  /\ w_infile' = file
  /\ outfile' = <<>>
  /\ wpc' = "pass"
  /\ UNCHANGED <<earlier, entries, next_entry, data, data_pos, p_file, pos, wret, wlog,
                 wreads, short_left>>
  /\ UNCHANGED <<rvars, svars>>

\* feof (infile) with infile a null pointer is undefined: the call faults, or
\* it returns and the loop is skipped or entered (where fread faults).
PassThroughNull(outcome) ==
  /\ wpc = "pass"
  /\ w_infile.null
  /\ wpc' = outcome
  /\ UNCHANGED <<earlier, entries, w_infile, outfile, next_entry, data, data_pos, p_file,
                 pos, wret, wlog, wreads, short_left>>
  /\ UNCHANGED <<rvars, svars>>

\* One iteration of the pass-through loop, lines 139-153.
PassThroughStep(bytes_written) ==
  /\ wpc = "pass"
  /\ ~w_infile.null
  /\ ~w_infile.eof
  /\ LET r == read(w_infile)
     IN  /\ w_infile' = r.file
         /\ wreads' = wreads + 1
         /\ IF ~r.ok
              THEN /\ bytes_written = PacketSize
                   /\ IF r.err # "NONE"
                        THEN wpc' = "done" /\ wret' = r.err
                        ELSE UNCHANGED <<wpc, wret>>
                   /\ UNCHANGED <<outfile, wlog>>
              ELSE LET w == write(outfile, r.m_data, bytes_written)
                   IN  /\ outfile' = w.file
                       /\ wlog' = Append(wlog, [accepted |-> bytes_written, for |-> 0])
                       /\ UNCHANGED <<wpc, wret>>
  /\ short_left' = SinkAfter(bytes_written)
  /\ UNCHANGED <<earlier, entries, next_entry, data, data_pos, p_file, pos>>
  /\ UNCHANGED <<rvars, svars>>

\* feof (infile) is set: the loop ends and the for loop over entries begins.
PassThroughEnd ==
  /\ wpc = "pass"
  /\ ~w_infile.null
  /\ w_infile.eof
  /\ wpc' = "append"
  /\ UNCHANGED <<earlier, entries, w_infile, outfile, next_entry, data, data_pos, p_file,
                 pos, wret, wlog, wreads, short_left>>
  /\ UNCHANGED <<rvars, svars>>

\* The for loop takes the next entry, lines 155-169.
AppendBegin ==
  /\ wpc = "append"
  /\ next_entry < Len(entries)
  /\ data' = framed_data(entries[next_entry + 1])
  /\ p_file' = clear("awmk_file")
  /\ data_pos' = 0
  /\ pos' = IdSize
  /\ wpc' = "fill"
  /\ UNCHANGED <<earlier, entries, w_infile, outfile, next_entry, wret, wlog, wreads,
                 short_left>>
  /\ UNCHANGED <<rvars, svars>>

\* The while loop, lines 170-180, up to and with its next write, or to its end.
AppendFill(bytes_written) ==
  /\ wpc = "fill"
  /\ data_pos < Len(data)
  /\ LET f == fill_loop(p_file, pos, data, data_pos)
     IN  IF f.full
           THEN LET w == write(outfile, f.p_file, bytes_written)
                IN  /\ outfile' = w.file
                    /\ wlog' = Append(wlog, [accepted |-> bytes_written,
                                             for |-> next_entry + 1])
                    /\ p_file' = clear("awmk_data")
                    /\ pos' = IdSize
                    /\ data_pos' = f.data_pos + 1
           ELSE /\ bytes_written = PacketSize
                /\ p_file' = f.p_file
                /\ pos' = f.pos
                /\ data_pos' = f.data_pos
                /\ UNCHANGED <<outfile, wlog>>
  /\ short_left' = SinkAfter(bytes_written)
  /\ UNCHANGED <<earlier, entries, wpc, w_infile, next_entry, data, wret, wreads>>
  /\ UNCHANGED <<rvars, svars>>

\* After the while loop, lines 182-186: the last, partly filled packet.
AppendEnd(bytes_written) ==
  /\ wpc = "fill"
  /\ data_pos >= Len(data)
  /\ IF pos # IdSize
       THEN LET w == write(outfile, p_file, bytes_written)
            IN  /\ outfile' = w.file
                /\ wlog' = Append(wlog, [accepted |-> bytes_written,
                                         for |-> next_entry + 1])
       ELSE /\ bytes_written = PacketSize
            /\ UNCHANGED <<outfile, wlog>>
  /\ next_entry' = next_entry + 1
  /\ wpc' = "append"
  /\ short_left' = SinkAfter(bytes_written)
  /\ UNCHANGED <<earlier, entries, w_infile, data, data_pos, p_file, pos, wret, wreads>>
  /\ UNCHANGED <<rvars, svars>>

\* return Error::Code::NONE, line 188.
ProcessReturn ==
  /\ wpc = "append"
  /\ next_entry = Len(entries)
  /\ wret' = "NONE"
  /\ wpc' = "done"
  /\ UNCHANGED <<earlier, entries, w_infile, outfile, next_entry, data, data_pos, p_file,
                 pos, wlog, wreads, short_left>>
  /\ UNCHANGED <<rvars, svars>>

(* --------------------------- TSReader actions -------------------------- *)

\* load, lines 219-225: on a file of its own, or after process on what process
\* wrote or on what process was given.
LoadOpen(src, file) ==
  /\ rpc = "idle"
  /\ \/ src = "outfile" /\ wpc = "done" /\ file = OpenFile(outfile)
     \/ src = "infile" /\ wpc = "done" /\ file = OpenFile(w_infile.bytes)
     \/ src = "file" /\ wpc = "idle" /\ entries = <<>> /\ earlier = <<>>
  /\ rsrc' = src
  /\ r_infile' = file
  /\ rpc' = "loop"
  /\ UNCHANGED <<reader, rret>>
  /\ UNCHANGED <<wvars, svars>>

\* feof (infile) with infile a null pointer is undefined, as in process.
LoadNull(outcome) ==
  /\ rpc = "loop"
  /\ r_infile.null
  /\ rpc' = outcome
  /\ rret' = IF outcome = "done" THEN "NONE" ELSE rret
  /\ UNCHANGED <<rsrc, r_infile, reader>>
  /\ UNCHANGED <<wvars, svars>>

\* One iteration of load's loop, lines 226-268.
LoadStep ==
  /\ rpc = "loop"
  /\ ~r_infile.null
  /\ ~r_infile.eof
  /\ LET r == read(r_infile)
     IN  /\ r_infile' = r.file
         /\ IF ~r.ok
              THEN /\ IF r.err # "NONE"
                        THEN rpc' = "done" /\ rret' = r.err
                        ELSE UNCHANGED <<rpc, rret>>
                   /\ UNCHANGED reader
              ELSE /\ reader' = load_packet(reader, r.m_data)
                   /\ UNCHANGED <<rpc, rret>>
  /\ UNCHANGED rsrc
  /\ UNCHANGED <<wvars, svars>>

\* feof (infile) is set: return Error::Code::NONE, line 269.
LoadReturn ==
  /\ rpc = "loop"
  /\ ~r_infile.null
  /\ r_infile.eof
  /\ rret' = "NONE"
  /\ rpc' = "done"
  /\ UNCHANGED <<rsrc, r_infile, reader>>
  /\ UNCHANGED <<wvars, svars>>

Next ==
  \/ \E entry \in EntryKinds : AppendFile(entry)
  \/ earlier = <<>> /\ \E bytes \in ProcessInputs : ProcessOpen(OpenFile(bytes))
  \/ earlier = <<>> /\ ProcessOpen(NullFile)
  \/ NewWriter
  \/ earlier # <<>> /\ ProcessOpen(w_infile)
  \/ \E outcome \in {"crashed", "append"} : PassThroughNull(outcome)
  \/ \E n \in WriteOutcomes : PassThroughStep(n)
  \/ PassThroughEnd
  \/ AppendBegin
  \/ \E n \in WriteOutcomes : AppendFill(n)
  \/ \E n \in WriteOutcomes : AppendEnd(n)
  \/ ProcessReturn
  \/ LoadOpen("outfile", OpenFile(outfile))
  \/ LoadOpen("infile", OpenFile(w_infile.bytes))
  \/ rpc = "idle" /\ wpc = "idle" /\ \E bytes \in LoadInputs : LoadOpen("file", OpenFile(bytes))
  \/ LoadOpen("file", NullFile)
  \/ \E outcome \in {"crashed", "done"} : LoadNull(outcome)
  \/ LoadStep
  \/ LoadReturn

\* Every behaviour, short writes of the output among them.
Spec == Init /\ [][Next]_vars

\* The steps inside a call of process, and the steps of load that end it.
Running ==
  \/ \E outcome \in {"crashed", "append"} : PassThroughNull(outcome)
  \/ \E n \in WriteOutcomes : PassThroughStep(n)
  \/ PassThroughEnd
  \/ AppendBegin
  \/ \E n \in WriteOutcomes : AppendFill(n)
  \/ \E n \in WriteOutcomes : AppendEnd(n)
  \/ ProcessReturn
  \/ \E outcome \in {"crashed", "done"} : LoadNull(outcome)
  \/ LoadReturn

\* What LoadStep does to infile: the read of line 229.
LoadReads ==
  /\ rpc = "loop"
  /\ ~r_infile.null
  /\ ~r_infile.eof
  /\ r_infile' = read(r_infile).file

\* process and load are straight-line code run by one thread: a call that has
\* a next step takes it, and a load whose loop is entered does its read.
\* Whether a call is made is up to the caller.
SpecLive ==
  InitSinkOk /\ [][Next]_vars /\ WF_vars(Running) /\ WF_r_infile(LoadReads)

\* The behaviours in which the output accepts every write in full.
SpecSinkOk == InitSinkOk /\ [][Next]_vars

(* ------------------------------ properties ----------------------------- *)

PayloadSize == PacketSize - IdSize

\* The k-th whole packet (from 1) of a byte sequence, and the number of them.
PacketAt(bytes, k) == SubSeq(bytes, (k - 1) * PacketSize + 1, k * PacketSize)

NumPackets(bytes) == Len(bytes) \div PacketSize

\* Some call of TSPacket::write came back short.
SomeShortWrite == \E i \in 1..Len(wlog) : wlog[i].accepted # PacketSize

\* process has returned after it was given a stream it could open.
ProcessDone == wpc = "done" /\ ~w_infile.null

\* load has returned after it was given the output of a process run whose input
\* was the empty stream and which returned no error.
RoundTripDone ==
  /\ ProcessDone
  /\ w_infile.bytes = <<>>
  /\ wret = "NONE"
  /\ rsrc = "outfile"
  /\ rpc = "done"

\* C1: round trip.  When process has written the staged entries after an empty
\* input stream and load has read that output, load has returned no error and
\* entries() is the staged list: as many entries, each with its name and its
\* bytes, in append order.  (Names hold no NUL in EntryKinds.)
C1_RoundTrip ==
  RoundTripDone => rret = "NONE" /\ reader.m_entries = entries

\* The input of process is a valid stream: whole packets, each with the sync byte.
ValidInput ==
  /\ ~w_infile.null
  /\ Len(w_infile.bytes) % PacketSize = 0
  /\ \A k \in 1..NumPackets(w_infile.bytes) :
       PacketAt(w_infile.bytes, k)[1] = SyncByte

\* C2: pass-through fidelity.  For a valid input stream of N packets, while no
\* write came back short, the packets of the output are the input's packets, in
\* order, as far as the output reaches; once the pass-through loop is over the
\* output holds all N of them, and the write calls for staged entries are the
\* calls after the first N, so their packets lie behind the first N packets.
C2_PassThroughFidelity ==
  (ValidInput /\ wpc # "idle" /\ ~SomeShortWrite) =>
    LET N == NumPackets(w_infile.bytes)
    IN  /\ Len(outfile) = Len(wlog) * PacketSize
        /\ \A k \in 1..Min(N, Len(wlog)) :
             PacketAt(outfile, k) = PacketAt(w_infile.bytes, k)
        /\ \A i \in 1..Len(wlog) : (wlog[i].for = 0) <=> (i <= N)
        /\ wpc \in {"append", "fill", "done"} => Len(wlog) >= N

\* Witness of C2: process has returned after an input of two different packets
\* and two staged entries.
C2_Witness ==
  /\ ValidInput
  /\ wpc = "done"
  /\ wret = "NONE"
  /\ NumPackets(w_infile.bytes) = 2
  /\ PacketAt(w_infile.bytes, 1) # PacketAt(w_infile.bytes, 2)
  /\ Len(entries) = 2
  /\ Len(wlog) > 3

\* C3: process returns no error only if every packet write succeeded.
C3_ShortWriteReported ==
  (wpc = "done" /\ wret = "NONE") => ~SomeShortWrite

\* C4: once a packet write has failed, process reads no further input packet
\* and attempts no further packet write.
C4_ShortWriteAborts ==
  [][SomeShortWrite => (wreads' = wreads /\ wlog' = wlog)]_vars

\* The position k (from 1) of the first whole packet whose first byte is not
\* the sync byte, 0 when there is none.  Every packet before it is whole and has
\* the sync byte, so a reader of the stream gets to it.
BadSyncAt(bytes) ==
  LET bad == {k \in 1..NumPackets(bytes) : PacketAt(bytes, k)[1] # SyncByte}
  IN  IF bad = {} THEN 0 ELSE SetMin(bad)

\* The reader's state at the start of load.
ReaderInit ==
  [awmk_stream |-> <<>>,
   header |-> [data_size |-> 0, filename |-> <<>>],
   header_valid |-> FALSE,
   m_entries |-> <<>>]

\* The reader's state when exactly the first n packets of bytes were handled.
RECURSIVE LoadedFrom(_, _)
LoadedFrom(bytes, n) ==
  IF n = 0 THEN ReaderInit
  ELSE load_packet(LoadedFrom(bytes, n - 1), PacketAt(bytes, n))

\* load has returned after it was given a stream it could open.
LoadDone == rpc = "done" /\ ~r_infile.null

\* C5: corrupted sync.  When the first packet with a wrong first byte is packet
\* k, process and load return the sync error and have handled the k - 1 packets
\* before it and nothing else: process has read k packets and written the k - 1
\* good ones and no packet of an entry; load has read k packets and its entries
\* are those of the k - 1 packets before.
C5_CorruptedSync ==
  /\ (ProcessDone /\ BadSyncAt(w_infile.bytes) > 0) =>
       LET k == BadSyncAt(w_infile.bytes)
       IN  /\ wret = "bad packet sync"
           /\ wreads = k
           /\ w_infile.pos = k * PacketSize
           /\ Len(wlog) = k - 1
           /\ \A i \in 1..Len(wlog) : wlog[i].for = 0
           /\ ~SomeShortWrite =>
                outfile = SubSeq(w_infile.bytes, 1, (k - 1) * PacketSize)
  /\ (LoadDone /\ BadSyncAt(r_infile.bytes) > 0) =>
       LET k == BadSyncAt(r_infile.bytes)
       IN  /\ rret = "bad packet sync"
           /\ r_infile.pos = k * PacketSize
           /\ reader = LoadedFrom(r_infile.bytes, k - 1)

\* Witness of C5: process, with an entry staged, and then load were given a
\* stream whose second packet has a wrong first byte and is followed by a good
\* packet, and both have returned.
C5_Witness ==
  /\ ProcessDone
  /\ BadSyncAt(w_infile.bytes) = 2
  /\ NumPackets(w_infile.bytes) > 2
  /\ Len(entries) > 0
  /\ rsrc = "infile"
  /\ LoadDone
  /\ rret = "bad packet sync"

\* C6: truncated stream and clean end.  For a stream whose whole packets all
\* have the sync byte: with leftover bytes after the last whole packet, process
\* and load return the short-read error and have handled the whole packets only
\* (process has written them and no packet of an entry); with no leftover bytes
\* the last read gets zero bytes and both return no error, load having handled
\* every packet.
C6_TruncatedOrCleanEnd ==
  /\ (ProcessDone /\ BadSyncAt(w_infile.bytes) = 0) =>
       LET N == NumPackets(w_infile.bytes)
       IN  /\ wreads = N + 1
           /\ w_infile.pos = Len(w_infile.bytes)
           /\ IF Len(w_infile.bytes) % PacketSize # 0
                THEN /\ wret = "short read"
                     /\ Len(wlog) = N
                     /\ \A i \in 1..Len(wlog) : wlog[i].for = 0
                     /\ ~SomeShortWrite =>
                          outfile = SubSeq(w_infile.bytes, 1, N * PacketSize)
                ELSE wret = "NONE"
  /\ (LoadDone /\ BadSyncAt(r_infile.bytes) = 0) =>
       LET N == NumPackets(r_infile.bytes)
       IN  /\ r_infile.pos = Len(r_infile.bytes)
           /\ reader = LoadedFrom(r_infile.bytes, N)
           /\ rret = IF Len(r_infile.bytes) % PacketSize # 0
                       THEN "short read" ELSE "NONE"

\* Witness of C6: process and then load were given a stream of one whole packet
\* and 187 more bytes, and both have returned the short-read error.
C6_Witness ==
  /\ ProcessDone
  /\ Len(w_infile.bytes) = 2 * PacketSize - 1
  /\ wret = "short read"
  /\ Len(entries) > 0
  /\ rsrc = "infile"
  /\ LoadDone
  /\ rret = "short read"

\* The decimal digits of n as characters, for n below 1000.
Decimal(n) ==
  IF n < 10 THEN <<48 + n>>
  ELSE IF n < 100 THEN <<48 + (n \div 10), 48 + (n % 10)>>
  ELSE <<48 + (n \div 100), 48 + ((n \div 10) % 10), 48 + (n % 10)>>

\* The framed byte sequence of an entry: decimal length, ':', name, NUL, data.
Framing(e) == Decimal(Len(e.data)) \o <<58>> \o e.name \o <<0>> \o e.data

CeilDiv(a, b) == (a + b - 1) \div b

\* The positions in the output of the packets written for the e-th entry.
PacketsOf(e) == {k \in 1..Len(wlog) : wlog[k].for = e}

\* process has returned no error.
ProcessOk == wpc = "done" /\ wret = "NONE"

\* C7: packet count per entry.  When process has returned no error, the packets
\* it wrote for a staged entry of framed length L >= 1 number ceil(L/176), which
\* is at least one; the first of them carries the start marker and every other
\* one the continuation marker.  So a.txt with 5 bytes has 1 packet and b.bin
\* with 200 bytes has 2.
C7_PacketCount ==
  ProcessOk =>
    \A e \in 1..Len(entries) :
      LET L  == Len(Framing(entries[e]))
          ks == PacketsOf(e)
      IN  /\ L >= 1
          /\ Cardinality(ks) = CeilDiv(L, PayloadSize)
          /\ Cardinality(ks) >= 1
          /\ \A k \in ks :
               get_id(PacketAt(outfile, k)) =
                 IF k = SetMin(ks) THEN "awmk_file" ELSE "awmk_data"
          /\ (entries[e].name = <<97, 46, 116, 120, 116>> /\ Len(entries[e].data) = 5)
               => Cardinality(ks) = 1
          /\ (entries[e].name = <<98, 46, 98, 105, 110>> /\ Len(entries[e].data) = 200)
               => Cardinality(ks) = 2

\* Witness of C7: process has returned no error with two staged entries, one of
\* framed length twice 176 and one that needs a partly filled second packet.
C7_Witness ==
  /\ ProcessOk
  /\ \E e \in 1..Len(entries) :
       /\ Len(Framing(entries[e])) = 2 * PayloadSize
       /\ Cardinality(PacketsOf(e)) = 2
  /\ \E e \in 1..Len(entries) :
       /\ Len(Framing(entries[e])) % PayloadSize # 0
       /\ Cardinality(PacketsOf(e)) = 2

\* The bytes 12..187 (from 0) of the packets written for the e-th entry, one
\* packet after the other.
PayloadsOf(e) ==
  LET ks    == PacketsOf(e)
      first == SetMin(ks)
  IN  [i \in 1..(Cardinality(ks) * PayloadSize) |->
         outfile[(first - 1 + ((i - 1) \div PayloadSize)) * PacketSize
                   + IdSize + ((i - 1) % PayloadSize) + 1]]

\* C8: output ordering and layout.  While no write came back short the output
\* holds one packet for each write call, the ones for the input first, then the
\* ones for entry 1, for entry 2 and so on.  When process has returned no
\* error, every staged entry has its packets there, the start packet first and
\* only continuation packets behind it, and the bytes 12..187 of these packets
\* are the entry's framed byte sequence and then only zero bytes, fewer than 176.
C8_OutputLayout ==
  /\ ~SomeShortWrite =>
       /\ Len(outfile) = Len(wlog) * PacketSize
       /\ \A i, j \in 1..Len(wlog) : i < j => wlog[i].for <= wlog[j].for
       /\ \A i \in 1..Len(wlog) : wlog[i].for \in 0..Len(entries)
  /\ (ProcessOk /\ ~SomeShortWrite) =>
       \A e \in 1..Len(entries) :
         LET ks == PacketsOf(e)
             F  == Framing(entries[e])
         IN  /\ ks # {}
             /\ \A k \in ks :
                  (get_id(PacketAt(outfile, k)) = "awmk_file") <=> (k = SetMin(ks))
             /\ \A k \in ks \ {SetMin(ks)} :
                  get_id(PacketAt(outfile, k)) = "awmk_data"
             /\ Len(PayloadsOf(e)) >= Len(F)
             /\ Len(PayloadsOf(e)) - Len(F) < PayloadSize
             /\ \A i \in 1..Len(PayloadsOf(e)) :
                  PayloadsOf(e)[i] = IF i <= Len(F) THEN F[i] ELSE 0

\* Witness of C8: process has returned no error after two input packets and
\* two different staged entries, the second of them in more than one packet
\* with zero bytes behind its framed bytes.
C8_Witness ==
  /\ ProcessOk
  /\ ~w_infile.null
  /\ NumPackets(w_infile.bytes) = 2
  /\ Len(entries) = 2
  /\ entries[1] # entries[2]
  /\ Cardinality(PacketsOf(2)) = 2
  /\ Len(PayloadsOf(2)) > Len(Framing(entries[2]))

\* C9: unreadable source.  When the input file could not be opened, process
\* has, once it is past its first loop test, returned an error with no packet
\* read and none written, and load has returned an error with no entry emitted.
C9_UnreadableSource ==
  /\ (w_infile.null /\ wpc \notin {"idle", "pass"}) =>
       /\ wpc = "done"
       /\ wret \notin {"unset", "NONE"}
       /\ wreads = 0
       /\ wlog = <<>>
  /\ (r_infile.null /\ rpc \notin {"idle", "loop"}) =>
       /\ rpc = "done"
       /\ rret \notin {"unset", "NONE"}
       /\ reader.m_entries = <<>>

\* No entry is in progress in load: nothing is accumulated and no header is set.
ReaderIdle == reader.awmk_stream = <<>> /\ ~reader.header_valid

\* The next packet load reads is whole, has the sync byte and carries the
\* continuation marker.
NextIsContinuation ==
  /\ rpc = "loop"
  /\ ~r_infile.null
  /\ ~r_infile.eof
  /\ read(r_infile).ok
  /\ get_id(read(r_infile).m_data) = "awmk_data"

\* C10: orphan continuation.  A continuation packet read while no entry is in
\* progress leaves the accumulation buffer empty and the header state unset,
\* and no entry is emitted.
C10_OrphanContinuation ==
  [][(ReaderIdle /\ NextIsContinuation) =>
       /\ reader'.awmk_stream = <<>>
       /\ ~reader'.header_valid
       /\ reader'.m_entries = reader.m_entries]_vars

\* The packet the next read of load gets is whole, has the sync byte and
\* classifies as kind.
NextPacketIs(kind) ==
  /\ rpc = "loop"
  /\ ~r_infile.null
  /\ ~r_infile.eof
  /\ read(r_infile).ok
  /\ get_id(read(r_infile).m_data) = kind

\* The bytes 12..187 (from 0) of the packet the next read of load gets.
NextPayload == SubSeq(read(r_infile).m_data, IdSize + 1, PacketSize)

\* a is what is left of b when bytes are taken from its front.
IsSuffix(a, b) ==
  Len(a) <= Len(b) /\ a = SubSeq(b, Len(b) - Len(a) + 1, Len(b))

\* a lies in b as one run of bytes.
IsRunOf(a, b) ==
  \E i \in 0..(Len(b) - Len(a)) : a = SubSeq(b, i + 1, i + Len(a))

\* a is the beginning of b.
IsPrefix(a, b) == Len(a) <= Len(b) /\ a = SubSeq(b, 1, Len(a))

\* The reader's state st with nothing accumulated and no header.
Discarded(st) == [st EXCEPT !.awmk_stream = <<>>, !.header_valid = FALSE]

\* C11: start resets.  When load reads a start packet, whatever the reader's
\* state, the state after it is the one the same packet gives from the state
\* with the buffer and the header discarded; the buffer then holds only bytes of
\* this packet's payload, a header that is valid was parsed from this payload,
\* an entry, if one is emitted, has only bytes of this payload and comes behind
\* the entries emitted before, and load reports no error.
C11_StartResets ==
  [][NextPacketIs("awmk_file") =>
       /\ reader' = load_packet(Discarded(reader), read(r_infile).m_data)
       /\ IsSuffix(reader'.awmk_stream, NextPayload)
       /\ reader'.header_valid =>
            /\ parse_header(reader.header, NextPayload).ok
            /\ reader'.header = parse_header(reader.header, NextPayload).header
       /\ IsPrefix(reader.m_entries, reader'.m_entries)
       /\ Len(reader'.m_entries) <= Len(reader.m_entries) + 1
       /\ \A i \in (Len(reader.m_entries) + 1)..Len(reader'.m_entries) :
            IsRunOf(reader'.m_entries[i].data, NextPayload)
       /\ rret' = "unset"
       /\ rpc' = "loop"]_vars

\* Witness of C11: load has read a stream in which one start packet came while
\* bytes were accumulated without a header and another while a header was valid
\* and its entry incomplete, and an entry was emitted from the later one.
C11_Witness ==
  /\ rpc = "loop"
  /\ ~r_infile.null
  /\ \E j, k \in 2..NumPackets(r_infile.bytes) :
       /\ r_infile.pos >= k * PacketSize
       /\ get_id(PacketAt(r_infile.bytes, j)) = "awmk_file"
       /\ get_id(PacketAt(r_infile.bytes, k)) = "awmk_file"
       /\ LoadedFrom(r_infile.bytes, j - 1).awmk_stream # <<>>
       /\ ~LoadedFrom(r_infile.bytes, j - 1).header_valid
       /\ LoadedFrom(r_infile.bytes, k - 1).header_valid
       /\ Len(reader.m_entries) = 1
       /\ Len(LoadedFrom(r_infile.bytes, k - 1).m_entries) = 0

\* The first n packets of bytes without the ones that classify as neither
\* start nor continuation.
RECURSIVE MarkedOnly(_, _)
MarkedOnly(bytes, n) ==
  IF n = 0 THEN <<>>
  ELSE MarkedOnly(bytes, n - 1)
         \o (IF get_id(PacketAt(bytes, n)) = "unknown"
               THEN <<>> ELSE PacketAt(bytes, n))

\* C12: unmarked packets are invisible to the reader.  While load has met no
\* error, its buffer, header state and entries after the packets read so far
\* are the ones it has after the same packets with every packet left out that
\* classifies as neither start nor continuation: such a packet, wherever it
\* stands, changes none of them, and does not change the result of load.
C12_UnmarkedInvisible ==
  (~r_infile.null /\ rpc \in {"loop", "done"} /\ rret \in {"unset", "NONE"}) =>
    LET n      == r_infile.pos \div PacketSize
        marked == MarkedOnly(r_infile.bytes, n)
    IN  reader = LoadedFrom(marked, NumPackets(marked))

\* Witness of C12: load has read a start packet that leaves its entry
\* incomplete, then a packet without marker, then a continuation packet, and
\* has emitted the entry.
C12_Witness ==
  /\ rpc = "loop"
  /\ ~r_infile.null
  /\ r_infile.pos = 3 * PacketSize
  /\ get_id(PacketAt(r_infile.bytes, 1)) = "awmk_file"
  /\ LoadedFrom(r_infile.bytes, 1).header_valid
  /\ get_id(PacketAt(r_infile.bytes, 2)) = "unknown"
  /\ get_id(PacketAt(r_infile.bytes, 3)) = "awmk_data"
  /\ Len(reader.m_entries) = 1
  /\ Len(reader.m_entries[1].data) > PayloadSize

\* C13: header parsing.  For every staged entry (its name holds no NUL), on a
\* buffer that starts with the decimal length, ':', the name and NUL and goes
\* on with the entry's bytes, parse_header succeeds, gives the length as
\* data_size and the name as filename, and leaves exactly the bytes behind the
\* NUL in the buffer; on the bytes before the NUL alone it fails and leaves the
\* buffer and the header as they were.
C13_HeaderParsing ==
  \A e \in 1..Len(entries) :
    LET F     == Framing(entries[e])
        text  == SubSeq(F, 1, Len(F) - Len(entries[e].data) - 1)
        r     == parse_header(reader.header, F)
        q     == parse_header(reader.header, text)
    IN  /\ r.ok
        /\ r.header.data_size = Len(entries[e].data)
        /\ r.header.filename = entries[e].name
        /\ r.data = entries[e].data
        /\ ~q.ok
        /\ q.data = text
        /\ q.header = reader.header

\* The buffer load's loop body works on once the packet it read is taken in:
\* this packet's payload alone for a start packet, the accumulated bytes and
\* then the payload for a continuation packet.
TakenIn ==
  (IF NextPacketIs("awmk_file") THEN <<>> ELSE reader.awmk_stream) \o NextPayload

\* A header is valid from an earlier packet when the next packet is taken in.
HeaderKept == NextPacketIs("awmk_data") /\ reader.header_valid

\* Whether a header is known once the next packet is taken in, that header, and
\* the bytes then in the buffer: the ones behind the header's NUL when the
\* header is parsed from this buffer, every byte otherwise.
HeaderKnown == HeaderKept \/ parse_header(reader.header, TakenIn).ok

KnownHeader ==
  IF HeaderKept THEN reader.header
  ELSE parse_header(reader.header, TakenIn).header

BytesBehindHeader ==
  IF HeaderKept \/ ~HeaderKnown THEN TakenIn
  ELSE SubSeq(TakenIn, SetMin(NulPositions(TakenIn)) + 2, Len(TakenIn))

\* C14: entry emission.  Never is a header valid with data_size bytes or more
\* in the buffer.  When load takes in a marked packet it emits an entry exactly
\* when a header is then known and the bytes behind it are at least data_size:
\* the entry goes to the end of the entries, has the header's name and exactly
\* the first data_size bytes behind the header, and the reader is idle after it;
\* otherwise the entries stay as they are.
C14_EntryEmission ==
  [][/\ reader.header_valid => Len(reader.awmk_stream) < reader.header.data_size
     /\ (NextPacketIs("awmk_file") \/ NextPacketIs("awmk_data")) =>
          IF HeaderKnown /\ Len(BytesBehindHeader) >= KnownHeader.data_size
            THEN /\ reader'.m_entries =
                      Append(reader.m_entries,
                             [data |-> SubSeq(BytesBehindHeader, 1,
                                              KnownHeader.data_size),
                              name |-> KnownHeader.filename])
                 /\ reader'.awmk_stream = <<>>
                 /\ ~reader'.header_valid
            ELSE /\ reader'.m_entries = reader.m_entries
                 /\ reader'.header_valid = HeaderKnown
                 /\ reader'.awmk_stream = BytesBehindHeader
     /\ ~(NextPacketIs("awmk_file") \/ NextPacketIs("awmk_data")) =>
          reader'.m_entries = reader.m_entries]_vars

\* Witness of C14: load has emitted an entry of 180 bytes from a start packet
\* with 170 of them and a continuation packet with the other 10 and then zero
\* bytes, and is idle.
C14_Witness ==
  /\ rpc = "loop"
  /\ ~r_infile.null
  /\ r_infile.pos = 2 * PacketSize
  /\ get_id(PacketAt(r_infile.bytes, 1)) = "awmk_file"
  /\ get_id(PacketAt(r_infile.bytes, 2)) = "awmk_data"
  /\ LoadedFrom(r_infile.bytes, 1).header_valid
  /\ Len(LoadedFrom(r_infile.bytes, 1).awmk_stream) = 170
  /\ Len(reader.m_entries) = 1
  /\ Len(reader.m_entries[1].data) = 180
  /\ reader.awmk_stream = <<>>
  /\ ~reader.header_valid

\* The text s is decimal digits, ':' and any rest (the code's pattern,
\* ([0-9]*):(.*), lets the digits be none).
IsHeaderText(s) ==
  \E k \in 0..(Len(s) - 1) :
    /\ \A j \in 1..k : IsDigit(s[j])
    /\ s[k + 1] = 58

\* The buffer buf holds a NUL and the text before its first NUL is no header.
Malformed(buf) == NulPositions(buf) # {} /\ ~IsHeaderText(c_str(buf))

\* The next packet is a start packet with a whole entry in its payload: a
\* header text of digits, ':' and a name without line ends, NUL, and at least
\* as many bytes behind it as the digits say.
NextHoldsEntry ==
  /\ NextPacketIs("awmk_file")
  /\ parse_header(reader.header, NextPayload).ok
  /\ Len(parse_header(reader.header, NextPayload).data)
       >= parse_header(reader.header, NextPayload).header.data_size

\* The stream load reads is whole packets that all have the sync byte.
CleanStream ==
  /\ ~r_infile.null
  /\ Len(r_infile.bytes) % PacketSize = 0
  /\ BadSyncAt(r_infile.bytes) = 0

MarkerOf(kind) ==
  <<71, 31, 255, 16, 65, 87, 77, 75>>
    \o (IF kind = "awmk_file" THEN <<102, 105, 108, 101>>
                              ELSE <<100, 97, 116, 97>>)

\* The whole packets of the streams of the state: the input and the output of
\* process, the packet it fills, and the input of load.
PacketsInState ==
  {PacketAt(w_infile.bytes, k) : k \in 1..NumPackets(w_infile.bytes)}
    \cup {PacketAt(outfile, k) : k \in 1..NumPackets(outfile)}
    \cup {PacketAt(r_infile.bytes, k) : k \in 1..NumPackets(r_infile.bytes)}
    \cup {p_file}

\* The kind the packet in the append loop was cleared with: start until a
\* packet of the current entry is written, continuation from then on.
ClearedWith ==
  IF PacketsOf(next_entry + 1) = {} THEN "awmk_file" ELSE "awmk_data"

\* C16: marker integrity.  clear(kind) is the 12 marker bytes of kind and 176
\* zero bytes, and get_id of it is kind.  In the append loop pos is one of
\* 12..187, the packet keeps the marker it was cleared with and is zero from
\* pos on, and every packet written for an entry classifies as the kind it was
\* cleared with: start for the entry's first packet, continuation for the
\* others.  get_id of a packet is start or continuation exactly when its first
\* 12 bytes are that marker.
C16_MarkerIntegrity ==
  /\ \A kind \in {"awmk_file", "awmk_data"} :
       /\ clear(kind) = MarkerOf(kind) \o [i \in 1..PayloadSize |-> 0]
       /\ get_id(clear(kind)) = kind
  /\ wpc = "fill" =>
       /\ pos >= IdSize
       /\ pos < PacketSize
       /\ SubSeq(p_file, 1, IdSize) = MarkerOf(ClearedWith)
       /\ get_id(p_file) = ClearedWith
       /\ \A i \in (pos + 1)..PacketSize : p_file[i] = 0
  /\ ~SomeShortWrite =>
       \A k \in 1..Len(wlog) :
         wlog[k].for > 0 =>
           get_id(PacketAt(outfile, k)) =
             IF k = SetMin(PacketsOf(wlog[k].for)) THEN "awmk_file" ELSE "awmk_data"
  /\ \A p \in PacketsInState :
       \A kind \in {"awmk_file", "awmk_data"} :
         (get_id(p) = kind) <=> (SubSeq(p, 1, IdSize) = MarkerOf(kind))

\* Witness of C16: the append loop has written the start packet and a
\* continuation packet of an entry whose bytes hold both markers, and has
\* stored bytes in the next continuation packet.
C16_Witness ==
  /\ wpc = "fill"
  /\ ClearedWith = "awmk_data"
  /\ pos > IdSize
  /\ \E i \in 0..(Len(data) - IdSize) :
       SubSeq(data, i + 1, i + IdSize) = MarkerOf("awmk_data")

(* ----------------------------- re-embedding ---------------------------- *)

\* load has returned after it was given the output of a process run that
\* returned no error and whose input was the output of earlier runs.
ReembeddingDone ==
  /\ earlier # <<>>
  /\ ProcessOk
  /\ rsrc = "outfile"
  /\ rpc = "done"

\* C17: re-embedding.  When the input of process is the output of an earlier
\* run that carried the entries E1 and the writer has staged E2, the input's
\* packets are the beginning of the new output, unchanged, and load on the new
\* output returns no error and the entries of E1 followed by those of E2, each
\* with its name and its bytes.
C17_Reembedding ==
  ReembeddingDone =>
    /\ IsPrefix(w_infile.bytes, outfile)
    /\ rret = "NONE"
    /\ reader.m_entries = earlier \o entries

(* ------------------------ the entries list of load --------------------- *)

\* The step is the one in which load returns an error of TSPacket::read.
ReturnsReadError == rpc = "loop" /\ rpc' = "done" /\ rret' # "NONE"

\* C18: the entries list is append-only.  No step changes, reorders or removes
\* an entry that entries() already holds: the list before a step is the
\* beginning of the list after it, and a step adds at most one entry, at the
\* end.  The step in which load returns a sync or short-read error leaves the
\* list as it was, so the entries completed before the failing read are the
\* ones entries() holds after the return.
C18_AppendOnly ==
  [][/\ IsPrefix(reader.m_entries, reader'.m_entries)
     /\ Len(reader'.m_entries) <= Len(reader.m_entries) + 1
     /\ ReturnsReadError => reader'.m_entries = reader.m_entries]_vars

\* load has returned a read error with two entries emitted before it.
C18_Witness ==
  /\ rpc = "done"
  /\ rret \notin {"NONE", "unset"}
  /\ Len(reader.m_entries) = 2

(* ------------------------------ termination ---------------------------- *)

\* A step of a loop over the FILE before, after: it consumes bytes of the
\* stream or sets the end-of-stream indicator.
Consumes(before, after) ==
  \/ after.pos > before.pos
  \/ after.eof /\ ~before.eof

\* A step of the pass-through loop consumes, returns an error or leaves the
\* loop at the end of the stream.
PassLoopAdvances ==
  (wpc = "pass" /\ ~w_infile.null) =>
    \/ wpc' = "pass" /\ Consumes(w_infile, w_infile')
    \/ wpc' = "done" /\ wret' # "NONE"
    \/ wpc' = "append" /\ w_infile.eof

\* A step of load's loop consumes, returns an error or returns at the end of
\* the stream.
LoadLoopAdvances ==
  (rpc = "loop" /\ ~r_infile.null) =>
    \/ rpc' = "loop" /\ Consumes(r_infile, r_infile')
    \/ rpc' = "done" /\ rret' # "NONE"
    \/ rpc' = "done" /\ r_infile.eof

\* A step of the append loop stores k >= 1 bytes in the packet and adds k to
\* data_pos, which stays within the framed length; the loop is left with
\* data_pos at the framed length.
AppendLoopAdvances ==
  wpc = "fill" =>
    IF data_pos < Len(data)
      THEN /\ wpc' = "fill"
           /\ data_pos' > data_pos
           /\ data_pos' <= Len(data)
           /\ data_pos' - data_pos =
                IF Len(wlog') > Len(wlog) THEN PacketSize - pos ELSE pos' - pos
      ELSE /\ data_pos = Len(data)
           /\ wpc' = "append"
           /\ next_entry' = next_entry + 1

\* C19: termination.  Every step of the pass-through loop and of load's loop
\* consumes a part of the stream, returns an error or meets its end, every step
\* of the append loop advances data_pos by the number of bytes it stored, up to
\* the framed length, and so a process or a load that was given a stream
\* returns.
C19_Termination ==
  /\ [][PassLoopAdvances /\ LoadLoopAdvances /\ AppendLoopAdvances]_vars
  /\ (wpc \in {"pass", "append", "fill"} /\ ~w_infile.null) ~> (wpc = "done")
  /\ (rpc = "loop" /\ ~r_infile.null) ~> (rpc = "done")

\* process has returned after an input of at least one packet and two staged
\* entries, and load has returned after it read what process wrote.
C19_Witness ==
  /\ wpc = "done"
  /\ ~w_infile.null
  /\ Len(w_infile.bytes) >= PacketSize
  /\ Len(entries) = 2
  /\ rsrc = "outfile"
  /\ rpc = "done"
  /\ r_infile.eof

(* --------------------- SFInputStream (teststream.cc) ------------------- *)

\* The count main passes to read_frames.
ReadCount == 1024

\* A client other than main makes at most MaxCalls calls before it destroys
\* the stream.
MaxCalls == 3

\* The sound files sf_open may find: their channels and frames.
ChannelCounts == {1, 2}
FrameCounts == {0, 1024, 1500}

\* What sf_open and sf_error may give: a handle and no error, no handle and
\* an error, or a handle together with an error.
OpenOutcomes == {"ok", "null", "handle with error"}

\* close as it would be without its test of m_state.
close_unguarded ==
  /\ called' = "close"
  /\ close_calls' = close_calls + 1
  /\ IF m_sndfile = "nullptr"
       THEN /\ failed_assert' = "close"
            /\ UNCHANGED <<m_state, sf_closes>>
       ELSE /\ sf_closes' = sf_closes + 1
            /\ m_state' = "CLOSED"
            /\ UNCHANGED failed_assert
  /\ UNCHANGED <<m_sndfile, m_n_channels, sf_frames, samples>>

\* SFInputStream::open, lines 73-99, with what sf_open gives.
open(outcome, channels, frames) ==
  IF m_state # "NEW"
    THEN /\ failed_assert' = "open"
         /\ called' = "open"
         /\ UNCHANGED <<m_state, m_sndfile, m_n_channels, sf_frames, sf_closes,
                        close_calls, samples>>
    ELSE /\ IF outcome = "ok"
              THEN /\ m_sndfile' = "handle"
                   /\ m_n_channels' = channels
                   /\ sf_frames' = frames
                   /\ m_state' = "OPEN"
                   /\ called' = "open: true"
              ELSE /\ m_sndfile' = "nullptr"
                   /\ called' = "open: false"
                   /\ UNCHANGED <<m_state, m_n_channels, sf_frames>>
         /\ UNCHANGED <<sf_closes, close_calls, failed_assert, samples>>

\* SFInputStream::read_frames, lines 107-129: sf_readf_int delivers count
\* frames or the frames that are left, and the result holds a value per
\* channel for each of them.
read_frames(count) ==
  /\ called' = "read_frames"
  /\ IF m_state # "OPEN"
       THEN /\ failed_assert' = "read_frames"
            /\ UNCHANGED <<sf_frames, samples>>
       ELSE LET r_count == Min(count, sf_frames)
            IN  /\ sf_frames' = sf_frames - r_count
                /\ samples' = r_count * m_n_channels
                /\ UNCHANGED failed_assert
  /\ UNCHANGED <<m_state, m_sndfile, m_n_channels, sf_closes, close_calls>>

\* SFInputStream::close, lines 131-141.
close ==
  /\ called' = "close"
  /\ close_calls' = close_calls + 1
  /\ IF m_state = "OPEN"
       THEN IF m_sndfile = "nullptr"
              THEN /\ failed_assert' = "close"
                   /\ UNCHANGED <<m_state, sf_closes>>
              ELSE /\ sf_closes' = sf_closes + 1
                   /\ m_state' = "CLOSED"
                   /\ UNCHANGED failed_assert
       ELSE UNCHANGED <<m_state, sf_closes, failed_assert>>
  /\ UNCHANGED <<m_sndfile, m_n_channels, sf_frames, samples>>

\* main, lines 146-153: the stream is opened; a failed open leads to return 1.
MainOpen(outcome, channels, frames) ==
  /\ spc = "start"
  /\ failed_assert = "none"
  /\ open(outcome, channels, frames)
  /\ spc' = IF outcome = "ok" THEN "loop" ELSE "failed"
  /\ UNCHANGED calls
  /\ UNCHANGED vars

\* main, lines 155-160: one iteration of the do-while loop.
MainRead ==
  /\ spc = "loop"
  /\ failed_assert = "none"
  /\ read_frames(ReadCount)
  /\ spc' = IF samples' # 0 THEN "loop" ELSE "save"
  /\ UNCHANGED calls
  /\ UNCHANGED vars

\* main, lines 162-164 and 151-152: in is destroyed when main returns, after
\* out.wav was saved or after the failure was reported.
MainReturn ==
  /\ spc \in {"save", "failed"}
  /\ failed_assert = "none"
  /\ close
  /\ spc' = "exited"
  /\ UNCHANGED calls
  /\ UNCHANGED vars

\* A client other than main calls open, read_frames or close, in any order.
FreeCall(step) ==
  /\ spc \in {"start", "free"}
  /\ failed_assert = "none"
  /\ calls < MaxCalls
  /\ step
  /\ calls' = calls + 1
  /\ spc' = "free"
  /\ UNCHANGED vars

\* The destructor, lines 68-71, when such a client lets go of the stream.
FreeDestroy ==
  /\ spc = "free"
  /\ failed_assert = "none"
  /\ close
  /\ spc' = "destroyed"
  /\ UNCHANGED calls
  /\ UNCHANGED vars

NextStream ==
  \/ \E o \in OpenOutcomes, c \in ChannelCounts, f \in FrameCounts : MainOpen(o, c, f)
  \/ MainRead
  \/ MainReturn
  \/ \E o \in OpenOutcomes, c \in ChannelCounts, f \in FrameCounts :
       FreeCall(open(o, c, f))
  \/ \E count \in {1, ReadCount} : FreeCall(read_frames(count))
  \/ FreeCall(close)
  \/ FreeDestroy

\* Every behaviour of an SFInputStream under main and under any other client.
SpecStream == Init /\ [][NextStream]_svars

\* The client is teststream's main.
InMain == spc \in {"loop", "save", "failed", "exited"}

\* The state moves from before to after only along NEW -> OPEN -> CLOSED.
Moves(before, after) ==
  \/ after = before
  \/ before = "NEW" /\ after = "OPEN"
  \/ before = "OPEN" /\ after = "CLOSED"

\* C20: SFInputStream lifecycle.  The state only moves NEW -> OPEN -> CLOSED;
\* an open that returns false leaves the state NEW; a call of close closes the
\* file and moves to CLOSED when the state is OPEN and changes nothing
\* otherwise, so the file is closed at most once, however often close is
\* called; and in main, open is called in state NEW, every read_frames in state
\* OPEN, and no assertion fails.
C20_Lifecycle ==
  [][/\ Moves(m_state, m_state')
     /\ called' = "open: false" => m_state' = "NEW"
     /\ called' = "close" =>
          IF m_state = "OPEN"
            THEN m_state' = "CLOSED" /\ sf_closes' = sf_closes + 1
            ELSE UNCHANGED <<m_state, m_sndfile, m_n_channels, sf_frames, sf_closes>>
     /\ sf_closes' <= 1
     /\ InMain' =>
          /\ failed_assert' = "none"
          /\ called' \in {"open: true", "open: false"} => m_state = "NEW"
          /\ called' = "read_frames" => m_state = "OPEN"]_svars

\* close was called explicitly and again from the destructor, and the file
\* was closed once.
C20_Witness ==
  /\ spc = "destroyed"
  /\ close_calls = 2
  /\ sf_closes = 1
  /\ m_state = "CLOSED"

====
